---- MODULE Spec2Model ----
(***************************************************************************)
(* Latency probes of terraform/scripts/ws_latency.py.                      *)
(*                                                                         *)
(* LatencyStats is the accumulator; WSPingPongLatency is modelled as two   *)
(* execution contexts, the foreground that executes run() (fg, positions   *)
(* in pc) and the websocket thread that delivers the callbacks (bg).       *)
(* Clock readings are in milliseconds: perf_counter_ns() differences are   *)
(* divided by 1_000_000 by the code, so a sample is a difference of two    *)
(* readings of `now`.  TCPConnectLatency, TradeStreamLatency (foreground   *)
(* and websocket thread again) and run_full_stack follow, each with the    *)
(* specification of its own run; main starts one probe, run_full_stack all *)
(* three.                                                                  *)
(***************************************************************************)
EXTENDS Integers, Sequences, FiniteSets, TLC

VARIABLES
    \* ---- LatencyStats / WSPingPongLatency fields
    stats,          \* self.stats.samples: sequence of latencies (ms)
    pending,        \* self.pending_pings: FIFO of [t |-> send time, id |-> ping]
    sock,           \* self.sock is not None
    running,        \* self.running
    lock,           \* self.lock: "free", "fg" or "bg"
    \* ---- run(): arguments and locals of the foreground
    samples_arg, interval_arg, interval,
    pc, ret, polls, w, collected, last_print, send_time, snap, result,
    \* ---- websocket thread and transport
    bg, recv_time, cur_pong, conn, net,
    \* ---- clock
    now, wake,
    \* ---- history (not read by the program)
    matched,        \* per sample of stats: which ping and which pong made it
    log,            \* per ping frame issued: [t |-> its send_time, at |-> the
                    \* time of the frame, phase |-> the phase of run]
    phase,          \* "warmup" until the post-warmup reset, then "measure"
    pings,          \* iterations of the measurement loop
    lost,           \* pongs the network dropped in this phase
    pongedIds,      \* measurement pings whose pong reached on_pong
    strays,         \* unsolicited pongs delivered in this phase
    lateWarm,       \* the reset ran while a warmup pong was still outstanding
    faults,         \* faults of the transport so far in this run
    lossReport,     \* the loss count reported at line 215 (-1: none yet)
    closeCalled,    \* self.ws.close() was called
    closedDuring,   \* on_close ran while run() was in its measurement loop
    discards,       \* samples in stats when on_pong last found the queue
                    \* empty in this phase (-1: it never did)
    unlocked,       \* places that read or wrote stats / pending_pings
                    \* without holding self.lock
    \* ---- TCPConnectLatency: self.stats, run()'s argument and locals
    tcp_stats, tcp_samples, tcp_pc, tcp_w, tcp_i, tcp_result,
    \* ---- history of TCPConnectLatency.run
    tcp_warm_ok,    \* warmup cycles that connected
    tcp_log,        \* per attempt of the main loop: [ok |-> it connected,
                    \* ms |-> its latency]
    tcp_connects,   \* sock.connect calls so far, warmup included
    \* ---- TradeStreamLatency: fields, run()'s arguments and locals
    ts_stats,       \* self.stats.samples of the current accumulator
    ts_running,     \* self.running
    message_count,  \* self.message_count
    ts_warmup,      \* self.warmup
    ts_args,        \* [duration |-> duration_sec, warmup |-> warmup_sec]
    ts_pc, ts_polls, ts_result,
    \* ---- TradeStreamLatency: websocket thread and transport
    ts_bg,          \* position of the thread / of on_message
    ts_msg,         \* the message on_message is handling
    ts_conn,
    \* ---- history of TradeStreamLatency
    ts_hist,        \* per sample of ts_stats: [early |-> its on_message began
                    \* while self.warmup was set, ms |-> its latency,
                    \* kind |-> the kind of its message]
    ts_warned,      \* clock-synchronization warnings printed
    ts_skewed,      \* messages past the warmup check with latency < -100 ms
    ts_msgs,        \* messages delivered to on_message
    ts_raised,      \* exceptions that left on_message
    \* ---- run_full_stack
    fs_pc,
    fs_samples,     \* run_full_stack(samples)
    results         \* the dict results, as a set of [name, stats] entries

progVars  == <<stats, pending, sock, running, lock>>
fgVars    == <<samples_arg, interval_arg, interval, pc, ret, polls, w,
               collected, last_print, send_time, snap, result>>
bgVars    == <<bg, recv_time, cur_pong, conn, net>>
clockVars == <<now, wake>>
histVars  == <<matched, log, phase, pings, lost, pongedIds, strays,
               lateWarm, faults, lossReport, closeCalled, closedDuring,
               discards, unlocked>>
fgLocals == <<samples_arg, interval_arg, interval, ret, polls, w,
                   collected, last_print, send_time, snap, result>>
tcpVars   == <<tcp_stats, tcp_samples, tcp_pc, tcp_w, tcp_i, tcp_result,
               tcp_warm_ok, tcp_log, tcp_connects>>
pingVars  == <<progVars, fgVars, bgVars, histVars>>
tsVars    == <<ts_stats, ts_running, message_count, ts_warmup, ts_args,
               ts_pc, ts_polls, ts_result, ts_bg, ts_msg, ts_conn,
               ts_hist, ts_warned, ts_skewed, ts_raised, ts_msgs>>
fsVars    == <<fs_pc, fs_samples, results>>
otherProbes == <<tcpVars, tsVars, fsVars>>
nonTcp    == <<pingVars, clockVars, tsVars, fsVars>>
nonTs     == <<pingVars, tcpVars, fsVars>>
vars == <<progVars, fgVars, bgVars, clockVars, histVars, otherProbes>>

(***************************************************************************)
(* Program constants                                                       *)
(***************************************************************************)
MIN_SAMPLES      == 2
MIN_INTERVAL_MS  == 200
CONNECT_POLLS    == 50
POLL_SLEEP_MS    == 100
WARMUP_PINGS     == 5
WARMUP_SLEEP_MS  == 250
DRAIN_MS         == 1000
PROGRESS_EVERY   == 50
TCP_WARMUP       == 10
JOIN_TIMEOUT_MS  == 2000
SKEW_LIMIT_MS    == 0 - 100
TS_PROGRESS_EVERY == 500
FULL_PING_MAX    == 100
FULL_PING_INTERVAL == 250
FULL_TRADE_ARGS  == [duration |-> 30, warmup |-> 3]

(***************************************************************************)
(* Bounds of the model                                                     *)
(***************************************************************************)
MaxSamples  == 2      \* run(samples) is drawn from 1..MaxSamples
MaxPings    == 2      \* iterations of the measurement loop that are explored
MaxFaults   == 1      \* faults of the transport in one run: a pong dropped,
                      \* an unsolicited pong, the connection lost
MaxInFlight == 2      \* pongs in flight when a ping frame is sent
\* entries of pending_pings kept in the runs without bound on the pings
MaxQueue == 2
MaxOpenPoll == 1      \* the connection opens during the first polls, or
                      \* after run has given up, or never
MaxLen      == 4      \* samples added in the accumulator-only specification
MaxTcpSamples == 3    \* TCPConnectLatency.run(samples) is drawn from 1..3
Intervals   == {100, 250}     \* run(interval_ms)
MaxMsgs     == 3      \* messages the stream delivers in one run
FullMaxMsgs == 1      \* the same, in a run started by run_full_stack
TsArgs      == {[duration |-> 30, warmup |-> 3],
                [duration |-> 60, warmup |-> 5]}   \* run(duration_sec, warmup_sec)
EventAges   == {5, 0 - 200}   \* receive time minus event time E of a message (ms)
FsSamples   == {1}            \* run_full_stack(samples)
\* a trade event; an object without E; text that is not JSON; a JSON number;
\* an object whose E is a string; an object whose E is true
MsgKinds    == {"event", "no_E", "bad_json", "number", "E_text", "E_true"}
TcpLatencies == {1, 3}        \* latency of a connect that succeeds (ms)
Values      == {0, 1, 3}      \* latencies added in the accumulator-only specification

Max(a, b) == IF a >= b THEN a ELSE b
Min(a, b) == IF a <= b THEN a ELSE b

None == [none |-> TRUE]

(***************************************************************************)
(* LatencyStats                                                            *)
(***************************************************************************)
RECURSIVE SeqMin(_), SeqMax(_)
SeqMin(s) == IF Len(s) = 1 THEN s[1] ELSE Min(s[1], SeqMin(Tail(s)))
SeqMax(s) == IF Len(s) = 1 THEN s[1] ELSE Max(s[1], SeqMax(Tail(s)))

\* LatencyStats.add
add(samples, latency_ms) == Append(samples, latency_ms)

\* Statistics are exact rationals in units of 1/PSCALE ms (percentile
\* ranks are given per mille, so that 99.9 is the integer 999); the float
\* rounding of numpy is not represented.
PSCALE == 1000
P999_MIN_SAMPLES == 1000

\* sorted(samples), as np.percentile and np.median order the array
Sorted(samples) == SortSeq(samples, LAMBDA x, y : x < y)

RECURSIVE SeqSum(_)
SeqSum(s) == IF s = <<>> THEN 0 ELSE s[1] + SeqSum(Tail(s))

\* np.percentile(arr, q), numpy's default method "linear": the virtual index
\* h = (n-1)*q/100 into the sorted array, and linear interpolation between
\* the two samples around it.  arr is the ordered array, permille = 10*q.
LinearPercentile(arr, permille) ==
    LET n    == Len(arr)
        h    == (n - 1) * permille
        lo   == h \div PSCALE
        frac == h - PSCALE * lo
    IN  IF lo + 1 >= n
        THEN PSCALE * arr[n]
        ELSE PSCALE * arr[lo + 1] + frac * (arr[lo + 2] - arr[lo + 1])

\* The rank read from the array in the order the samples were added.
PercentileUnsorted(samples, permille) == LinearPercentile(samples, permille)

\* float(np.percentile(arr, q)) of lines 51-55
Percentile(samples, permille) == LinearPercentile(Sorted(samples), permille)

\* np.median: the middle sample, or the mean of the two middle samples
Median(samples) ==
    LET arr == Sorted(samples)
        n   == Len(arr)
    IN  IF n % 2 = 1
        THEN PSCALE * arr[(n + 1) \div 2]
        ELSE (PSCALE \div 2) * (arr[n \div 2] + arr[n \div 2 + 1])

\* lines 44-56: the dict of statistics (stdev, a square root, is left out;
\* mean is the pair sum / count)
Snapshot(samples) ==
    [count  |-> Len(samples),
     min    |-> SeqMin(samples),
     max    |-> SeqMax(samples),
     mean   |-> [num |-> SeqSum(samples), den |-> Len(samples)],
     median |-> Median(samples),
     p50    |-> Percentile(samples, 500),
     p90    |-> Percentile(samples, 900),
     p95    |-> Percentile(samples, 950),
     p99    |-> Percentile(samples, 990),
     p99_9  |-> IF Len(samples) >= P999_MIN_SAMPLES
                THEN Percentile(samples, 999) ELSE None]

\* A compute that reports the error state only for an empty accumulator
\* (the comparison of line 40 against 1 instead of 2).
computeAtLeastOne(samples) ==
    [samples |-> samples,
     out |-> IF Len(samples) < MIN_SAMPLES - 1
             THEN [error |-> "Not enough samples"]
             ELSE Snapshot(samples)]

\* LatencyStats.compute: the returned dict, and self.samples after the call
\* (np.array copies the list; nothing writes self.samples).
compute(samples) ==
    [samples |-> samples,
     out |-> IF Len(samples) < MIN_SAMPLES
             THEN [error |-> "Not enough samples"]
             ELSE Snapshot(samples)]

IsError(d) == "error" \in DOMAIN d

(***************************************************************************)
(* Initial state: WSPingPongLatency.__init__, before run(samples,          *)
(* interval_ms) is called.                                                 *)
(***************************************************************************)
InitPing(s, i, at) ==
    /\ stats = <<>> /\ pending = <<>> /\ sock = FALSE /\ running = FALSE
    /\ lock = "free"
    /\ samples_arg = s /\ interval_arg = i /\ interval = 0
    /\ pc = at /\ ret = "none" /\ polls = 0 /\ w = 0
    /\ collected = 0 /\ last_print = 0 /\ send_time = 0
    /\ snap = None /\ result = "none"
    /\ bg = "unstarted" /\ recv_time = 0 /\ cur_pong = 0
    /\ conn = "none" /\ net = <<>>
    /\ now = 0 /\ wake = 0
    /\ matched = <<>> /\ log = <<>> /\ phase = "warmup" /\ pings = 0
    /\ lost = 0 /\ pongedIds = {} /\ strays = 0 /\ lateWarm = FALSE
    /\ faults = 0
    /\ lossReport = -1 /\ closeCalled = FALSE /\ closedDuring = FALSE
    /\ discards = -1 /\ unlocked = {}

\* TCPConnectLatency.__init__ (lines 349-352); tcp_pc = "off": run is not
\* called
InitTcp(n, at) ==
    /\ tcp_stats = <<>> /\ tcp_samples = n /\ tcp_pc = at
    /\ tcp_w = 0 /\ tcp_i = 0 /\ tcp_result = "none"
    /\ tcp_warm_ok = 0 /\ tcp_log = <<>> /\ tcp_connects = 0

\* TradeStreamLatency.__init__ (lines 229-236); ts_pc = "off": run is not
\* called
InitTs(args, at) ==
    /\ ts_stats = <<>> /\ ts_running = FALSE /\ message_count = 0
    /\ ts_warmup = TRUE /\ ts_args = args
    /\ ts_pc = at /\ ts_polls = 0 /\ ts_result = "none"
    /\ ts_bg = "unstarted" /\ ts_msg = None /\ ts_conn = "none"
    /\ ts_hist = <<>> /\ ts_warned = 0 /\ ts_skewed = 0 /\ ts_msgs = 0
    /\ ts_raised = 0

NoArgs == [duration |-> 0, warmup |-> 0]

\* run_full_stack is not called
InitFsOff == fs_pc = "off" /\ fs_samples = 0 /\ results = {}

\* pc = "init": run(s, i) is called; pc = "off": it is not
InitProbe(s, i) == InitPing(s, i, "init")

Init ==
    /\ \E s \in 1..MaxSamples, i \in Intervals : InitProbe(s, i)
    /\ InitTcp(0, "off")
    /\ InitTs(NoArgs, "off")
    /\ InitFsOff

\* time.sleep(d) has returned
Awake == now >= wake

(***************************************************************************)
(* The clock.  Time passes while the foreground is in time.sleep(), up to  *)
(* the instant the sleep ends; the steps of the code between two sleeps    *)
(* take no time: an on_message that has begun runs to its end before the   *)
(* clock moves.                                                            *)
(***************************************************************************)
Tick ==
    /\ now < wake
    /\ ts_bg \notin {"parsed", "checked", "added"}
    /\ now' = wake
    /\ UNCHANGED <<wake, progVars, fgVars, bgVars, histVars>>
    /\ UNCHANGED otherProbes

(***************************************************************************)
(* WSPingPongLatency.run, foreground                                       *)
(***************************************************************************)
\* (mutation of ClampInterval: the requested interval is used as it is)
ClampIntervalNone(interval_ms) == interval_ms

\* lines 142-167: clamp the interval, create the app, start the thread
ClampInterval(interval_ms) == Max(interval_ms, MIN_INTERVAL_MS)

Start ==
    /\ pc = "init"
    /\ interval' = ClampInterval(interval_arg)
    /\ bg' = "connecting"
    /\ pc' = "poll"
    /\ UNCHANGED <<progVars, clockVars, histVars, samples_arg, interval_arg,
                   ret, polls, w, collected, last_print, send_time, snap,
                   result, recv_time, cur_pong, conn, net>>
    /\ UNCHANGED otherProbes

\* lines 170-173: for _ in range(50): if self.running: break; sleep(0.1)
Poll ==
    /\ pc = "poll" /\ Awake
    /\ IF polls < CONNECT_POLLS /\ ~running
       THEN /\ wake' = now + POLL_SLEEP_MS
            /\ polls' = polls + 1
            /\ pc' = pc
       ELSE /\ pc' = "postpoll"
            /\ UNCHANGED <<wake, polls>>
    /\ UNCHANGED <<progVars, bgVars, histVars, now, samples_arg,
                   interval_arg, interval, ret, w, collected, last_print,
                   send_time, snap, result>>
    /\ UNCHANGED otherProbes

\* (mutation of PostPoll: run goes on to the warmup without the check)
PostPollNoCheck ==
    /\ pc = "postpoll"
    /\ pc' = "warm"
    /\ UNCHANGED <<progVars, bgVars, clockVars, histVars, fgLocals,
                   otherProbes>>

\* lines 175-177: if not self.running: return None
PostPoll ==
    /\ pc = "postpoll"
    /\ IF ~running
       THEN pc' = "done" /\ result' = "None"
       ELSE pc' = "warm" /\ result' = result
    /\ UNCHANGED <<progVars, bgVars, clockVars, histVars, samples_arg,
                   interval_arg, interval, ret, polls, w, collected,
                   last_print, send_time, snap>>
    /\ UNCHANGED otherProbes

\* lines 181-186: for _ in range(5): send_ping(); sleep(0.25) -- then sleep(1.0)
Warm ==
    /\ pc = "warm" /\ Awake
    /\ IF w < WARMUP_PINGS
       THEN pc' = "sp_check" /\ ret' = "warm_sleep" /\ wake' = wake
       ELSE pc' = "reset" /\ ret' = ret /\ wake' = now + DRAIN_MS
    /\ UNCHANGED <<progVars, bgVars, histVars, now, samples_arg,
                   interval_arg, interval, polls, w, collected, last_print,
                   send_time, snap, result>>
    /\ UNCHANGED otherProbes

WarmSleep ==
    /\ pc = "warm_sleep"
    /\ wake' = now + WARMUP_SLEEP_MS
    /\ w' = w + 1
    /\ pc' = "warm"
    /\ UNCHANGED <<progVars, bgVars, histVars, now, samples_arg,
                   interval_arg, interval, ret, polls, collected, last_print,
                   send_time, snap, result>>
    /\ UNCHANGED otherProbes

(***************************************************************************)
(* WSPingPongLatency.send_ping (lines 126-132), called from run at         *)
(* position ret.  An exception leaves the with-block (the lock is          *)
(* released) and, uncaught in run, ends run: pc = "raised".                *)
(***************************************************************************)
\* line 128: if self.sock and self.running
SendPingGuard == sock /\ running

SendPingCheck ==
    /\ pc = "sp_check"
    /\ pc' = IF SendPingGuard THEN "sp_lock" ELSE ret
    /\ UNCHANGED <<progVars, bgVars, clockVars, histVars, samples_arg,
                   interval_arg, interval, ret, polls, w, collected,
                   last_print, send_time, snap, result>>
    /\ UNCHANGED otherProbes

\* lines 129-130: with self.lock: send_time = time.perf_counter_ns()
SendPingLock ==
    /\ pc = "sp_lock" /\ lock = "free"
    /\ lock' = "fg"
    /\ send_time' = now
    /\ pc' = "sp_ping"
    /\ UNCHANGED <<stats, pending, sock, running, bgVars, clockVars, histVars,
                   samples_arg, interval_arg, interval, ret, polls, w,
                   collected, last_print, snap, result>>
    /\ UNCHANGED otherProbes

\* line 131: self.sock.ping(), the lock still held.  self.sock is read again:
\* None raises AttributeError (on_close ran after the check of line 128), and
\* a connection that has dropped raises in the transport.
FrameCanBeSent == sock /\ conn = "open"

\* send_ping with the with-block ending at the frame: the lock is released
\* once self.sock.ping() has returned, before the append of line 132
SendPingFrameOkUnlocked ==
    /\ pc = "sp_ping" /\ FrameCanBeSent
    /\ Len(net) < MaxInFlight
    /\ log' = Append(log, [t |-> send_time, at |-> now, phase |-> phase])
    /\ net' = Append(net, Len(log) + 1)
    /\ pc' = "sp_append"
    /\ lock' = "free"
    /\ UNCHANGED <<stats, pending, sock, running, clockVars, samples_arg,
                   interval_arg, interval,
                   ret, polls, w, collected, last_print, send_time, snap,
                   result, bg, recv_time, cur_pong, conn, matched, phase,
                   pings, lost, pongedIds, strays, lateWarm, faults, lossReport,
                   closeCalled, closedDuring, discards, unlocked>>
    /\ UNCHANGED otherProbes

SendPingFrameOk ==
    /\ pc = "sp_ping" /\ FrameCanBeSent
    /\ Len(net) < MaxInFlight
    /\ log' = Append(log, [t |-> send_time, at |-> now, phase |-> phase])
    /\ net' = Append(net, Len(log) + 1)
    /\ pc' = "sp_append"
    /\ UNCHANGED <<progVars, clockVars, samples_arg, interval_arg, interval,
                   ret, polls, w, collected, last_print, send_time, snap,
                   result, bg, recv_time, cur_pong, conn, matched, phase,
                   pings, lost, pongedIds, strays, lateWarm, faults, lossReport,
                   closeCalled, closedDuring, discards, unlocked>>
    /\ UNCHANGED otherProbes

SendPingFrameRaises ==
    /\ pc = "sp_ping" /\ ~FrameCanBeSent
    /\ lock' = "free"
    /\ pc' = "raised"
    /\ send_time' = 0
    /\ UNCHANGED <<stats, pending, sock, running, bgVars, clockVars, histVars,
                   samples_arg, interval_arg, interval, ret, polls, w,
                   collected, last_print, snap, result>>
    /\ UNCHANGED otherProbes

\* line 132: self.pending_pings.append(send_time); the with-block ends
SendPingAppend ==
    /\ pc = "sp_append"
    /\ pending' = Append(pending, [t |-> send_time, id |-> Len(log)])
    /\ lock' = "free"
    /\ pc' = ret
    /\ send_time' = 0                       \* the local goes out of scope
    /\ UNCHANGED <<stats, sock, running, bgVars, clockVars, histVars,
                   samples_arg, interval_arg, interval, ret, polls, w,
                   collected, last_print, snap, result>>
    /\ UNCHANGED otherProbes

(***************************************************************************)
(* run, lines 188-191: the post-warmup reset                               *)
(***************************************************************************)
\* self.stats = LatencyStats(); self.pending_pings.clear(); then lines 195-196
\* (the with-block is one step: the lock is taken, the two statements run and
\* the lock is released; it cannot be entered while on_pong holds the lock)
Reset ==
    /\ pc = "reset" /\ Awake /\ lock = "free"
    /\ stats' = <<>>
    /\ pending' = <<>>
    /\ lock' = "free"
    /\ collected' = 0 /\ last_print' = 0
    /\ pc' = "loop"
    /\ matched' = <<>>
    /\ phase' = "measure"
    /\ lateWarm' = (net # <<>> \/ bg = "pong_wait")
    /\ lost' = 0 /\ strays' = 0 /\ discards' = -1
    /\ UNCHANGED <<sock, running, bgVars, clockVars, samples_arg,
                   interval_arg, interval, ret, polls, w, send_time, snap,
                   result, log, pings, pongedIds, faults, lossReport,
                   closeCalled, closedDuring, unlocked>>
    /\ UNCHANGED otherProbes

(***************************************************************************)
(* run, lines 197-207: the measurement loop                                *)
(***************************************************************************)
\* line 197: while collected < samples and self.running
LoopGuard == collected < samples_arg /\ running

Loop ==
    /\ pc = "loop"
    /\ IF LoopGuard
       THEN /\ pings < MaxPings
            /\ pings' = pings + 1
            /\ pc' = "sp_check" /\ ret' = "meas_sleep"
            /\ wake' = wake
       ELSE /\ pc' = "loss"                  \* line 210: time.sleep(1.0)
            /\ wake' = now + DRAIN_MS
            /\ UNCHANGED <<pings, ret>>
    /\ UNCHANGED <<progVars, bgVars, now, samples_arg, interval_arg,
                   interval, polls, w, collected, last_print, send_time, snap,
                   result, matched, log, phase, lost, pongedIds, strays,
                   lateWarm, faults, lossReport, closeCalled, closedDuring,
                   discards, unlocked>>
    /\ UNCHANGED otherProbes

\* line 199: time.sleep(interval_ms / 1000)
MeasSleep ==
    /\ pc = "meas_sleep"
    /\ wake' = now + interval
    /\ pc' = "count"
    /\ UNCHANGED <<progVars, bgVars, histVars, now, samples_arg,
                   interval_arg, interval, ret, polls, w, collected,
                   last_print, send_time, snap, result>>
    /\ UNCHANGED otherProbes

\* lines 200-201: with self.lock: collected = len(self.stats.samples)
Count ==
    /\ pc = "count" /\ Awake /\ lock = "free"
    /\ collected' = Len(stats)
    /\ lock' = "free"
    /\ pc' = "progress"
    /\ UNCHANGED <<stats, pending, sock, running, bgVars, clockVars, histVars,
                   samples_arg, interval_arg, interval, ret, polls, w,
                   last_print, send_time, snap, result>>
    /\ UNCHANGED otherProbes

\* lines 204-207: every 50 samples, self.stats.compute() outside the lock
Progress ==
    /\ pc = "progress"
    /\ IF collected >= last_print + PROGRESS_EVERY
       THEN /\ snap' = compute(stats).out
            /\ stats' = compute(stats).samples
            /\ last_print' = collected
            /\ unlocked' = unlocked \cup {"progress"}
       ELSE UNCHANGED <<snap, stats, last_print, unlocked>>
    /\ pc' = "loop"
    /\ UNCHANGED <<pending, sock, running, lock, bgVars, clockVars,
                   samples_arg, interval_arg, interval, ret, polls, w,
                   collected, send_time, result, matched, log, phase, pings,
                   lost, pongedIds, strays, lateWarm, faults, lossReport,
                   closeCalled, closedDuring, discards>>
    /\ UNCHANGED otherProbes

(***************************************************************************)
(* run, lines 209-219: drain, loss check, close, report                    *)
(***************************************************************************)
\* lines 214-215: the warning reports len(self.pending_pings)
LossCount(q) == Len(q)

LossCheck ==
    /\ pc = "loss" /\ Awake /\ lock = "free"
    /\ lossReport' = LossCount(pending)
    /\ lock' = "free"
    /\ pc' = "close"
    /\ UNCHANGED <<stats, pending, sock, running, bgVars, clockVars, fgLocals,
                   matched, log, phase, pings, lost, pongedIds, strays,
                   lateWarm, faults, closeCalled, closedDuring, discards,
                   unlocked>>
    /\ UNCHANGED otherProbes

\* line 217: self.ws.close()
Close ==
    /\ pc = "close"
    /\ closeCalled' = TRUE
    /\ conn' = IF conn = "open" THEN "closed" ELSE conn
    /\ pc' = "report"
    /\ UNCHANGED <<progVars, clockVars, fgLocals, bg, recv_time, cur_pong,
                   net, matched, log, phase, pings, lost, pongedIds,
                   strays, lateWarm, faults, lossReport, closedDuring,
                   discards, unlocked>>
    /\ UNCHANGED otherProbes

\* lines 218-219: self.stats.print_stats(...) calls compute(); return self.stats
Report ==
    /\ pc = "report"
    /\ snap' = compute(stats).out
    /\ stats' = compute(stats).samples
    /\ result' = "stats"
    /\ pc' = "done"
    /\ unlocked' = unlocked \cup {"report"}
    /\ UNCHANGED <<pending, sock, running, lock, bgVars, clockVars,
                   samples_arg, interval_arg, interval, ret, polls, w,
                   collected, last_print, send_time, matched, log, phase,
                   pings, lost, pongedIds, strays, lateWarm, faults,
                   lossReport, closeCalled, closedDuring, discards>>
    /\ UNCHANGED otherProbes

(***************************************************************************)
(* The websocket thread: callbacks of WSPingPongLatency, and the transport *)
(***************************************************************************)
\* on_open, lines 98-101
OnOpen ==
    /\ bg = "connecting"
    /\ polls <= MaxOpenPoll \/ result = "None"
    /\ conn' = "open"
    /\ sock' = TRUE
    /\ running' = TRUE
    /\ bg' = "idle"
    /\ UNCHANGED <<stats, pending, lock, fgVars, clockVars, histVars,
                   recv_time, cur_pong, net>>
    /\ UNCHANGED otherProbes

\* on_pong, line 108: recv_time = time.perf_counter_ns(), for the pong frame
\* at the head of the (ordered) transport
PongArrive ==
    /\ bg = "idle" /\ conn = "open" /\ net # <<>>
    /\ cur_pong' = Head(net)
    /\ net' = Tail(net)
    /\ recv_time' = now
    /\ bg' = "pong_wait"
    /\ UNCHANGED <<progVars, fgVars, clockVars, conn, matched, log, phase,
                   pings, lost, pongedIds, strays, lateWarm, faults, lossReport, closeCalled,
                   closedDuring, discards, unlocked>>
    /\ UNCHANGED otherProbes

\* on_pong for a pong frame that answers no ping of the probe (id 0)
StrayPong ==
    /\ bg = "idle" /\ conn = "open" /\ faults < MaxFaults
    /\ cur_pong' = 0
    /\ recv_time' = now
    /\ bg' = "pong_wait"
    /\ strays' = strays + 1
    /\ faults' = faults + 1
    /\ UNCHANGED <<progVars, fgVars, clockVars, conn, net, matched, log,
                   phase, pings, lost, pongedIds, lateWarm, lossReport,
                   closeCalled, closedDuring, discards, unlocked>>
    /\ UNCHANGED otherProbes

\* the network drops the oldest pong in flight (or the ping it answers)
PongLose ==
    /\ net # <<>> /\ faults < MaxFaults
    /\ lost' = lost + 1
    /\ faults' = faults + 1
    /\ net' = Tail(net)
    /\ UNCHANGED <<progVars, fgVars, clockVars, bg, recv_time, cur_pong, conn,
                   matched, log, phase, pings, pongedIds, strays, lateWarm,
                   lossReport, closeCalled, closedDuring, discards, unlocked>>
    /\ UNCHANGED otherProbes

\* (mutation of PongMatch: a pong that finds the queue empty is recorded as a
\* sample of its own, measured from time 0)
PongMatchStray(q, acc, recv) ==
    IF q # <<>>
    THEN [pending |-> Tail(q),
          stats   |-> add(acc, recv - Head(q).t),
          hit     |-> <<Head(q)>>]
    ELSE [pending |-> q, stats |-> add(acc, recv), hit |-> <<>>]

\* (mutation of PongMatch: pop() instead of popleft(), the newest ping)
PongMatchNewest(q, acc, recv) ==
    IF q # <<>>
    THEN [pending |-> SubSeq(q, 1, Len(q) - 1),
          stats   |-> add(acc, recv - q[Len(q)].t),
          hit     |-> <<q[Len(q)]>>]
    ELSE [pending |-> q, stats |-> acc, hit |-> <<>>]

\* (mutation of PongMatch: the head of the queue is read but not removed)
PongMatchKeep(q, acc, recv) ==
    IF q # <<>>
    THEN [pending |-> q,
          stats   |-> add(acc, recv - Head(q).t),
          hit     |-> <<Head(q)>>]
    ELSE [pending |-> q, stats |-> acc, hit |-> <<>>]

\* on_pong, lines 112-115: what the callback leaves in pending_pings and in
\* the accumulator (and which ping the sample was matched to)
PongMatch(q, acc, recv) ==
    IF q # <<>>
    THEN [pending |-> Tail(q),
          stats   |-> add(acc, recv - Head(q).t),
          hit     |-> <<Head(q)>>]
    ELSE [pending |-> q, stats |-> acc, hit |-> <<>>]

\* on_pong, lines 110-115: the with-block, entered when the lock is free
OnPongBody ==
    /\ bg = "pong_wait" /\ lock = "free"
    /\ LET m == PongMatch(pending, stats, recv_time) IN
         /\ pending' = m.pending
         /\ stats' = m.stats
         /\ matched' = IF m.hit = <<>> THEN matched
                       ELSE Append(matched, [ping |-> m.hit[1].id,
                                             pong |-> cur_pong,
                                             recv |-> recv_time])
    /\ lock' = "free"
    /\ bg' = "idle"
    /\ recv_time' = 0 /\ cur_pong' = 0     \* the callback has returned
    /\ pongedIds' = IF cur_pong \in DOMAIN log /\ log[cur_pong].phase = "measure"
                     THEN pongedIds \cup {cur_pong} ELSE pongedIds
    /\ discards' = IF pending = <<>> THEN Len(stats) ELSE discards
    /\ UNCHANGED <<sock, running, fgVars, clockVars, conn, net, log, phase,
                   pings, lost, strays, lateWarm, faults, lossReport,
                   closeCalled, closedDuring, unlocked>>
    /\ UNCHANGED otherProbes

\* the peer or the network ends the connection
ConnDrop ==
    /\ conn = "open" /\ faults < MaxFaults
    /\ pc \notin {"done", "raised"}
    /\ conn' = "closed"
    /\ faults' = faults + 1
    /\ UNCHANGED <<progVars, fgVars, clockVars, bg, recv_time, cur_pong, net,
                   matched, log, phase, pings, lost, pongedIds, strays,
                   lateWarm, lossReport, closeCalled, closedDuring, discards,
                   unlocked>>
    /\ UNCHANGED otherProbes

InMeasurementLoop ==
    /\ phase = "measure"
    /\ \/ pc \in {"loop", "meas_sleep", "count", "progress"}
       \/ pc \in {"sp_check", "sp_lock", "sp_ping", "sp_append"}

\* on_close, lines 121-124: self.running = False, then self.sock = None
OnCloseRunning ==
    /\ bg = "idle" /\ conn = "closed"
    /\ running' = FALSE
    /\ bg' = "closing"
    /\ closedDuring' = (closedDuring \/ (InMeasurementLoop /\ ~closeCalled))
    /\ UNCHANGED <<stats, pending, sock, lock, fgVars, clockVars, recv_time,
                   cur_pong, conn, net, matched, log, phase, pings, lost,
                   pongedIds, strays, lateWarm, faults, lossReport, closeCalled, discards,
                   unlocked>>
    /\ UNCHANGED otherProbes

OnCloseSock ==
    /\ bg = "closing"
    /\ sock' = FALSE
    /\ bg' = "dead"
    /\ UNCHANGED <<stats, pending, running, lock, fgVars, clockVars, histVars,
                   recv_time, cur_pong, conn, net>>
    /\ UNCHANGED otherProbes

Next ==
    \/ Tick
    \/ Start \/ Poll \/ PostPoll \/ Warm \/ WarmSleep
    \/ SendPingCheck \/ SendPingLock \/ SendPingFrameOk \/ SendPingFrameRaises
    \/ SendPingAppend
    \/ Reset
    \/ Loop \/ MeasSleep \/ Count \/ Progress
    \/ LossCheck \/ Close \/ Report
    \/ OnOpen \/ PongArrive \/ StrayPong \/ PongLose \/ OnPongBody
    \/ ConnDrop \/ OnCloseRunning \/ OnCloseSock

Spec == Init /\ [][Next]_vars

(***************************************************************************)
(* The measurement loop of WSPingPongLatency.run, lines 193-219, on its    *)
(* own and without bound on the number of pings, for the question whether  *)
(* run returns.  The run is taken up where the loop is entered: the        *)
(* connection is open, the warmup is over, the accumulator and the queue   *)
(* have been reset.  The clock is not read (every timestamp is 0) and a    *)
(* time.sleep is one step.  The peer answers a ping frame or does not.     *)
(* pending_pings is the one part of the program's state that grows without *)
(* bound while pongs stay out; entries past MaxQueue are not kept, and the *)
(* pings they stand for are among those the peer does not answer.  The     *)
(* loop condition reads len(stats.samples) and self.running only.          *)
(***************************************************************************)
InitLive ==
    /\ \E s \in 1..MaxSamples, i \in Intervals :
          /\ samples_arg = s /\ interval_arg = i
          /\ interval = Max(i, MIN_INTERVAL_MS)
    /\ stats = <<>> /\ pending = <<>> /\ sock = TRUE /\ running = TRUE
    /\ lock = "free"
    /\ pc = "loop" /\ ret = "none" /\ polls = 0 /\ w = WARMUP_PINGS
    /\ collected = 0 /\ last_print = 0 /\ send_time = 0
    /\ snap = None /\ result = "none"
    /\ bg = "idle" /\ recv_time = 0 /\ cur_pong = 0
    /\ conn = "open" /\ net = <<>>
    /\ now = 0 /\ wake = 0
    /\ matched = <<>> /\ log = <<>> /\ phase = "measure" /\ pings = 0
    /\ lost = 0 /\ pongedIds = {} /\ strays = 0 /\ lateWarm = FALSE
    /\ faults = 0
    /\ lossReport = -1 /\ closeCalled = FALSE /\ closedDuring = FALSE
    /\ discards = -1 /\ unlocked = {}
    /\ InitTcp(0, "off") /\ InitTs(NoArgs, "off") /\ InitFsOff

\* line 197: while collected < samples and self.running; line 210 after it
LiveLoop ==
    /\ pc = "loop"
    /\ IF LoopGuard
       THEN pc' = "sp_check" /\ ret' = "meas_sleep"
       ELSE pc' = "loss" /\ ret' = ret       \* line 210: time.sleep(1.0)
    /\ UNCHANGED <<progVars, bgVars, clockVars, histVars, samples_arg,
                   interval_arg, interval, polls, w, collected, last_print,
                   send_time, snap, result>>
    /\ UNCHANGED otherProbes

\* line 131: self.sock.ping() returns; the peer will answer with a pong
\* (id 1) or will not
LiveSendPingFrame ==
    /\ pc = "sp_ping" /\ FrameCanBeSent
    /\ \/ /\ Len(net) < MaxInFlight /\ Len(pending) < MaxQueue
          /\ net' = Append(net, 1)
       \/ net' = net
    /\ pc' = "sp_append"
    /\ UNCHANGED <<progVars, clockVars, histVars, samples_arg, interval_arg,
                   interval, ret, polls, w, collected, last_print, send_time,
                   snap, result, bg, recv_time, cur_pong, conn>>
    /\ UNCHANGED otherProbes

\* line 132: self.pending_pings.append(send_time); the with-block ends
LiveSendPingAppend ==
    /\ pc = "sp_append"
    /\ pending' = IF Len(pending) < MaxQueue
                  THEN Append(pending, [t |-> send_time, id |-> 1])
                  ELSE pending
    /\ lock' = "free"
    /\ pc' = ret
    /\ send_time' = 0
    /\ UNCHANGED <<stats, sock, running, bgVars, clockVars, histVars,
                   samples_arg, interval_arg, interval, ret, polls, w,
                   collected, last_print, snap, result>>
    /\ UNCHANGED otherProbes

\* line 199: time.sleep(interval_ms / 1000) returns
LiveMeasSleep ==
    /\ pc = "meas_sleep"
    /\ pc' = "count"
    /\ UNCHANGED <<progVars, bgVars, clockVars, histVars, samples_arg,
                   interval_arg, interval, ret, polls, w, collected,
                   last_print, send_time, snap, result>>
    /\ UNCHANGED otherProbes

\* the steps of the thread that called run
LiveForeground ==
    \/ LiveLoop \/ SendPingCheck \/ SendPingLock \/ LiveSendPingFrame
    \/ SendPingFrameRaises \/ LiveSendPingAppend \/ LiveMeasSleep
    \/ Count \/ Progress \/ LossCheck \/ Close \/ Report

\* the callbacks of the websocket thread, once the frame or the close event
\* is there
LiveCallbacks == OnPongBody \/ OnCloseRunning \/ OnCloseSock

\* what the network does: nothing obliges it to
LiveNetwork == PongArrive \/ StrayPong \/ PongLose \/ ConnDrop

NextLive == LiveForeground \/ LiveCallbacks \/ LiveNetwork

\* both threads are scheduled: a step of the foreground that can be taken is
\* taken, and a callback that waits for the lock obtains it (the foreground
\* releases the lock before each of its sleeps).  Nothing is assumed of the
\* network.
SpecLive ==
    /\ InitLive /\ [][NextLive]_vars
    /\ WF_vars(LiveForeground) /\ SF_vars(LiveCallbacks)

(***************************************************************************)
(* The accumulator on its own: samples are added and compute() is called   *)
(* on every accumulator of up to MaxLen samples drawn from Values.         *)
(***************************************************************************)
StatsAdd ==
    /\ Len(stats) < MaxLen
    /\ \E v \in Values : stats' = add(stats, v)
    /\ UNCHANGED <<pending, sock, running, lock, fgVars, bgVars, clockVars,
                   histVars>>
    /\ UNCHANGED otherProbes

StatsCompute ==
    /\ snap' = compute(stats).out
    /\ stats' = compute(stats).samples
    /\ UNCHANGED <<pending, sock, running, lock, bgVars, clockVars, histVars,
                   samples_arg, interval_arg, interval, pc, ret, polls, w,
                   collected, last_print, send_time, result>>
    /\ UNCHANGED otherProbes

InitStats ==
    /\ InitProbe(1, MIN_INTERVAL_MS) /\ InitTcp(0, "off")
    /\ InitTs(NoArgs, "off") /\ InitFsOff

NextStats == StatsAdd \/ StatsCompute

SpecStats == InitStats /\ [][NextStats]_vars

(***************************************************************************)
(* TCPConnectLatency.run (lines 354-406).  One thread; the sleeps between  *)
(* the connects only pace the loop and are not represented.                *)
(***************************************************************************)
\* lines 362-368: socket.gethostbyname succeeds, or raises and run returns None
TcpResolve ==
    /\ tcp_pc = "init"
    /\ \E resolved \in BOOLEAN :
          IF resolved
          THEN tcp_pc' = "warm" /\ tcp_result' = tcp_result
          ELSE tcp_pc' = "done" /\ tcp_result' = "None"
    /\ UNCHANGED <<tcp_stats, tcp_samples, tcp_w, tcp_i, tcp_warm_ok, tcp_log,
                   tcp_connects, nonTcp>>

\* lines 372-380: one warmup cycle; connect, close, and `except: pass`
TcpWarmup ==
    /\ tcp_pc = "warm"
    /\ IF tcp_w < TCP_WARMUP
       THEN /\ \E ok \in BOOLEAN :
                 tcp_warm_ok' = tcp_warm_ok + (IF ok THEN 1 ELSE 0)
            /\ tcp_connects' = tcp_connects + 1
            /\ tcp_w' = tcp_w + 1
            /\ tcp_pc' = tcp_pc
       ELSE /\ tcp_pc' = "loop"
            /\ UNCHANGED <<tcp_warm_ok, tcp_connects, tcp_w>>
    /\ UNCHANGED <<tcp_stats, tcp_samples, tcp_i, tcp_result, tcp_log,
                   nonTcp>>

\* (mutation of TcpRecord: a failed connect is recorded as a zero latency)
TcpRecordZero(samples, ok, latency_ms) ==
    add(samples, IF ok THEN latency_ms ELSE 0)

\* lines 385-397: self.stats.add(latency_ms) is reached only if connect
\* returned; an exception skips it
TcpRecord(samples, ok, latency_ms) ==
    IF ok THEN add(samples, latency_ms) ELSE samples

\* lines 384-403: one iteration of `for i in range(samples)`
TcpMeasure ==
    /\ tcp_pc = "loop"
    /\ IF tcp_i < tcp_samples
       THEN /\ \E ok \in BOOLEAN, ms \in TcpLatencies :
                 /\ tcp_stats' = TcpRecord(tcp_stats, ok, ms)
                 /\ tcp_log' = Append(tcp_log,
                                      [ok |-> ok, ms |-> IF ok THEN ms ELSE 0])
            /\ tcp_connects' = tcp_connects + 1
            /\ tcp_i' = tcp_i + 1
            /\ tcp_pc' = tcp_pc
       ELSE /\ tcp_pc' = "report"
            /\ UNCHANGED <<tcp_stats, tcp_log, tcp_connects, tcp_i>>
    /\ UNCHANGED <<tcp_samples, tcp_w, tcp_result, tcp_warm_ok, nonTcp>>

\* lines 405-406: self.stats.print_stats(...); return self.stats
TcpReport ==
    /\ tcp_pc = "report"
    /\ tcp_stats' = compute(tcp_stats).samples
    /\ tcp_result' = "stats"
    /\ tcp_pc' = "done"
    /\ UNCHANGED <<tcp_samples, tcp_w, tcp_i, tcp_warm_ok, tcp_log,
                   tcp_connects, nonTcp>>

InitTcpRun ==
    /\ InitPing(1, MIN_INTERVAL_MS, "off")
    /\ \E n \in 1..MaxTcpSamples : InitTcp(n, "init")
    /\ InitTs(NoArgs, "off") /\ InitFsOff

NextTcp == TcpResolve \/ TcpWarmup \/ TcpMeasure \/ TcpReport

SpecTcp == InitTcpRun /\ [][NextTcp]_vars

(***************************************************************************)
(* TradeStreamLatency (lines 222-340): the foreground executes run(), the  *)
(* websocket thread delivers on_open, on_message and on_close.  No lock:   *)
(* each read or write of a field is a step of its own where the other      *)
(* context can observe the difference.                                     *)
(***************************************************************************)
\* lines 304-314: the WebSocketApp is built and its daemon thread started
TsStart ==
    /\ ts_pc = "init"
    /\ ts_bg' = "connecting"
    /\ ts_pc' = "poll"
    /\ UNCHANGED <<ts_stats, ts_running, message_count, ts_warmup, ts_args,
                   ts_polls, ts_result, ts_msg, ts_conn, ts_hist, ts_warned,
                   ts_skewed, ts_raised, ts_msgs, nonTs, clockVars>>

\* lines 317-320: for _ in range(50): if self.running: break; sleep(0.1)
TsPoll ==
    /\ ts_pc = "poll" /\ Awake
    /\ IF ts_polls < CONNECT_POLLS /\ ~ts_running
       THEN /\ wake' = now + POLL_SLEEP_MS
            /\ ts_polls' = ts_polls + 1
            /\ ts_pc' = ts_pc
       ELSE /\ ts_pc' = "postpoll"
            /\ UNCHANGED <<wake, ts_polls>>
    /\ UNCHANGED <<ts_stats, ts_running, message_count, ts_warmup, ts_args,
                   ts_result, ts_bg, ts_msg, ts_conn, ts_hist, ts_warned,
                   ts_skewed, ts_raised, ts_msgs, nonTs, now>>

\* lines 322-328: if not self.running: return None; else sleep(warmup_sec)
TsPostPoll ==
    /\ ts_pc = "postpoll"
    /\ IF ~ts_running
       THEN ts_pc' = "done" /\ ts_result' = "None" /\ wake' = wake
       ELSE /\ ts_pc' = "warmup" /\ ts_result' = ts_result
            /\ wake' = now + 1000 * ts_args.warmup
    /\ UNCHANGED <<ts_stats, ts_running, message_count, ts_warmup, ts_args,
                   ts_polls, ts_bg, ts_msg, ts_conn, ts_hist, ts_warned,
                   ts_skewed, ts_raised, ts_msgs, nonTs, now>>

\* line 329: self.warmup = False
TsClearFlag ==
    /\ ts_pc = "warmup" /\ Awake
    /\ ts_warmup' = FALSE
    /\ ts_pc' = "replace"
    /\ UNCHANGED <<ts_stats, ts_running, message_count, ts_args, ts_polls,
                   ts_result, ts_bg, ts_msg, ts_conn, ts_hist, ts_warned,
                   ts_skewed, ts_raised, ts_msgs, nonTs, clockVars>>

\* lines 330-334: self.stats = LatencyStats(); sleep(duration_sec)
TsReplace ==
    /\ ts_pc = "replace"
    /\ ts_stats' = <<>>
    /\ ts_hist' = <<>>
    /\ wake' = now + 1000 * ts_args.duration
    /\ ts_pc' = "collect"
    /\ UNCHANGED <<ts_running, message_count, ts_warmup, ts_args, ts_polls,
                   ts_result, ts_bg, ts_msg, ts_conn, ts_warned, ts_skewed, ts_raised,
                   ts_msgs, nonTs, now>>

\* lines 336-337: ws.close(); ws_thread.join(timeout=2) begins
TsClose ==
    /\ ts_pc = "collect" /\ Awake
    /\ ts_conn' = "closed"
    /\ wake' = now + JOIN_TIMEOUT_MS
    /\ ts_pc' = "join"
    /\ UNCHANGED <<ts_stats, ts_running, message_count, ts_warmup, ts_args,
                   ts_polls, ts_result, ts_bg, ts_msg, ts_hist, ts_warned,
                   ts_skewed, ts_raised, ts_msgs, nonTs, now>>

\* line 337: join returns when the thread has ended or after 2 s
TsJoin ==
    /\ ts_pc = "join"
    /\ ts_bg = "dead" \/ Awake
    /\ wake' = now
    /\ ts_pc' = "report"
    /\ UNCHANGED <<ts_stats, ts_running, message_count, ts_warmup, ts_args,
                   ts_polls, ts_result, ts_bg, ts_msg, ts_conn, ts_hist,
                   ts_warned, ts_skewed, ts_raised, ts_msgs, nonTs, now>>

\* lines 339-340: self.stats.print_stats(...); return self.stats
TsReport ==
    /\ ts_pc = "report"
    /\ ts_stats' = compute(ts_stats).samples
    /\ ts_result' = "stats"
    /\ ts_pc' = "done"
    /\ UNCHANGED <<ts_running, message_count, ts_warmup, ts_args, ts_polls,
                   ts_bg, ts_msg, ts_conn, ts_hist, ts_warned, ts_skewed, ts_raised,
                   ts_msgs, nonTs, clockVars>>

\* on_open, lines 272-282: subscribe, then self.running = True
TsOnOpen ==
    /\ ts_bg = "connecting" /\ ts_polls <= MaxOpenPoll
    /\ ts_conn' = "open"
    /\ ts_running' = TRUE
    /\ ts_bg' = "idle"
    /\ UNCHANGED <<ts_stats, message_count, ts_warmup, ts_args, ts_pc,
                   ts_polls, ts_result, ts_msg, ts_hist, ts_warned,
                   ts_skewed, ts_raised, ts_msgs, nonTs, clockVars>>

\* a message whose data['E'] the arithmetic of lines 253-256 accepts: a
\* number, or true (which Python multiplies and subtracts as the integer 1)
HasUsableE(kind) == kind \in {"event", "E_true"}

\* on_message, lines 239-244: recv_time_ns = time.time_ns(), then
\* json.loads(message); text that is not JSON returns at once
TsMsgBegin ==
    /\ ts_bg = "idle" /\ ts_conn = "open" /\ ts_msgs < MaxMsgs
    /\ ts_msgs' = ts_msgs + 1
    /\ \E kind \in MsgKinds, age \in EventAges :
          IF kind = "bad_json"
          THEN ts_msg' = ts_msg /\ ts_bg' = ts_bg
          ELSE /\ ts_msg' = [kind |-> kind, recv |-> now,
                             E |-> IF kind = "event" THEN now - age
                                   ELSE IF kind = "E_true" THEN 1 ELSE 0,
                             early |-> ts_warmup]
               /\ ts_bg' = "parsed"
    /\ UNCHANGED <<ts_stats, ts_running, message_count, ts_warmup, ts_args,
                   ts_pc, ts_polls, ts_result, ts_conn, ts_hist, ts_warned,
                   ts_skewed, ts_raised, nonTs, clockVars>>

\* lines 247-251: if self.warmup: return; if 'E' in data: ...
\* `'E' in data` is False for an object without the key and raises
\* TypeError for data that is a JSON number; the exception leaves on_message
\* (the websocket thread reports it to on_error and goes on)
TsMsgCheckWarmup ==
    /\ ts_bg = "parsed"
    /\ IF ts_warmup \/ ts_msg.kind = "no_E"
       THEN ts_bg' = "idle" /\ ts_msg' = None /\ ts_raised' = ts_raised
       ELSE IF ts_msg.kind = "number"
       THEN ts_bg' = "idle" /\ ts_msg' = None /\ ts_raised' = ts_raised + 1
       ELSE ts_bg' = "checked" /\ ts_msg' = ts_msg /\ ts_raised' = ts_raised
    /\ UNCHANGED <<ts_stats, ts_running, message_count, ts_warmup, ts_args,
                   ts_pc, ts_polls, ts_result, ts_conn, ts_hist, ts_warned,
                   ts_skewed, ts_msgs, nonTs, clockVars>>

\* line 256: latency_ms = (recv_time_ns - event_time_ns) / 1_000_000
TsLatency(msg) == msg.recv - msg.E

\* lines 259-261: the warning is printed if latency_ms < -100 and
\* self.message_count == 0
TsWarns(latency_ms, count) == latency_ms < SKEW_LIMIT_MS /\ count = 0

\* lines 252-263: the latency, the skew check, self.stats.add(latency_ms);
\* with data['E'] a string, line 253 builds a string and the subtraction of
\* line 256 raises TypeError
TsMsgAdd ==
    /\ ts_bg = "checked"
    /\ IF HasUsableE(ts_msg.kind)
       THEN /\ ts_warned' = ts_warned +
                  (IF TsWarns(TsLatency(ts_msg), message_count) THEN 1 ELSE 0)
            /\ ts_skewed' = ts_skewed +
                  (IF TsLatency(ts_msg) < SKEW_LIMIT_MS THEN 1 ELSE 0)
            /\ ts_stats' = add(ts_stats, TsLatency(ts_msg))
            /\ ts_hist' = Append(ts_hist, [early |-> ts_msg.early,
                                           ms |-> TsLatency(ts_msg),
                                           kind |-> ts_msg.kind])
            /\ ts_bg' = "added"
            /\ ts_raised' = ts_raised
       ELSE /\ ts_bg' = "idle"
            /\ ts_raised' = ts_raised + 1
            /\ UNCHANGED <<ts_warned, ts_skewed, ts_stats, ts_hist>>
    /\ ts_msg' = None
    /\ UNCHANGED <<ts_running, message_count, ts_warmup, ts_args, ts_pc,
                   ts_polls, ts_result, ts_conn, ts_msgs, nonTs, clockVars>>

\* lines 264-270: self.message_count += 1, and at every 500th message
\* self.stats.compute() for the progress line
TsMsgCount ==
    /\ ts_bg = "added"
    /\ message_count' = message_count + 1
    /\ ts_stats' = IF (message_count + 1) % TS_PROGRESS_EVERY = 0
                   THEN compute(ts_stats).samples ELSE ts_stats
    /\ ts_bg' = "idle"
    /\ UNCHANGED <<ts_running, ts_warmup, ts_args, ts_pc, ts_polls,
                   ts_result, ts_msg, ts_conn, ts_hist, ts_warned, ts_skewed, ts_raised,
                   ts_msgs, nonTs, clockVars>>

\* the connection is lost while run is in progress
TsConnDrop ==
    /\ ts_conn = "open" /\ ts_pc \notin {"done", "report"}
    /\ ts_conn' = "closed"
    /\ UNCHANGED <<ts_stats, ts_running, message_count, ts_warmup, ts_args,
                   ts_pc, ts_polls, ts_result, ts_bg, ts_msg, ts_hist,
                   ts_warned, ts_skewed, ts_raised, ts_msgs, nonTs, clockVars>>

\* on_close, lines 287-289, after which run_forever returns
TsOnClose ==
    /\ ts_bg = "idle" /\ ts_conn = "closed"
    /\ ts_running' = FALSE
    /\ ts_bg' = "dead"
    /\ UNCHANGED <<ts_stats, message_count, ts_warmup, ts_args, ts_pc,
                   ts_polls, ts_result, ts_msg, ts_conn, ts_hist, ts_warned,
                   ts_skewed, ts_raised, ts_msgs, nonTs, clockVars>>

InitTsRun ==
    /\ InitPing(1, MIN_INTERVAL_MS, "off") /\ InitTcp(0, "off") /\ InitFsOff
    /\ \E a \in TsArgs : InitTs(a, "init")

NextTs ==
    \/ Tick
    \/ TsStart \/ TsPoll \/ TsPostPoll \/ TsClearFlag \/ TsReplace
    \/ TsClose \/ TsJoin \/ TsReport
    \/ TsOnOpen \/ TsMsgBegin \/ TsMsgCheckWarmup \/ TsMsgAdd \/ TsMsgCount
    \/ TsConnDrop \/ TsOnClose

SpecTs == InitTsRun /\ [][NextTs]_vars

(***************************************************************************)
(* main (lines 459-498) with --method tcp, ping or trade: one probe is     *)
(* built and its run is called.                                            *)
(***************************************************************************)
InitMain ==
    /\ InitFsOff
    /\ \/ /\ \E s \in 1..MaxSamples, i \in Intervals : InitPing(s, i, "init")
          /\ InitTcp(0, "off") /\ InitTs(NoArgs, "off")
       \/ /\ InitPing(1, MIN_INTERVAL_MS, "off")
          /\ \E n \in 1..MaxTcpSamples : InitTcp(n, "init")
          /\ InitTs(NoArgs, "off")
       \/ /\ InitPing(1, MIN_INTERVAL_MS, "off")
          /\ InitTcp(0, "off")
          /\ \E a \in TsArgs : InitTs(a, "init")

NextMain ==
    \/ Tick
    \/ Start \/ Poll \/ PostPoll \/ Warm \/ WarmSleep
    \/ SendPingCheck \/ SendPingLock \/ SendPingFrameOk \/ SendPingFrameRaises
    \/ SendPingAppend
    \/ Reset
    \/ Loop \/ MeasSleep \/ Count \/ Progress
    \/ LossCheck \/ Close \/ Report
    \/ OnOpen \/ PongArrive \/ StrayPong \/ PongLose \/ OnPongBody
    \/ ConnDrop \/ OnCloseRunning \/ OnCloseSock
    \/ TcpResolve \/ TcpWarmup \/ TcpMeasure \/ TcpReport
    \/ TsStart \/ TsPoll \/ TsPostPoll \/ TsClearFlag \/ TsReplace
    \/ TsClose \/ TsJoin \/ TsReport
    \/ TsOnOpen \/ TsMsgBegin \/ TsMsgCheckWarmup \/ TsMsgAdd \/ TsMsgCount
    \/ TsConnDrop \/ TsOnClose

SpecMain == InitMain /\ [][NextMain]_vars

(***************************************************************************)
(* run_full_stack (lines 421-456): the three probes one after the other in *)
(* the calling thread; the websocket threads of the probes are daemons     *)
(* that run on their own.                                                  *)
(***************************************************************************)
\* `if x_stats: results[name] = x_stats.compute()`: None is false, a
\* LatencyStats object (no __bool__, no __len__) is true
Collect(res, name, outcome, samples) ==
    IF outcome = "stats"
    THEN res \cup {[name |-> name, stats |-> compute(samples).out]}
    ELSE res

\* lines 428-432: results = {}; tcp_test.run(samples=samples, interval_ms=20)
FsStart ==
    /\ fs_pc = "init"
    /\ tcp_pc' = "init"
    /\ tcp_samples' = fs_samples
    /\ fs_pc' = "tcp"
    /\ UNCHANGED <<tcp_stats, tcp_w, tcp_i, tcp_result, tcp_warm_ok, tcp_log,
                   tcp_connects, fs_samples, results, pingVars, tsVars,
                   clockVars>>

\* lines 433-438: the TCP result is collected, then
\* ping_test.run(samples=min(samples, 100), interval_ms=250).  tcp_test is
\* not used again: what it held is dropped from the state.
FsTcpReturned ==
    /\ fs_pc = "tcp" /\ tcp_pc = "done"
    /\ results' = Collect(results, "tcp_connect", tcp_result, tcp_stats)
    /\ tcp_pc' = "returned"
    /\ tcp_stats' = <<>> /\ tcp_w' = 0 /\ tcp_i' = 0
    /\ tcp_warm_ok' = 0 /\ tcp_log' = <<>> /\ tcp_connects' = 0
    /\ pc' = "init"
    /\ samples_arg' = Min(fs_samples, FULL_PING_MAX)
    /\ interval_arg' = FULL_PING_INTERVAL
    /\ fs_pc' = "ping"
    /\ UNCHANGED <<tcp_samples, tcp_result, fs_samples,
                   progVars, bgVars, histVars, interval, ret, polls, w,
                   collected, last_print, send_time, snap, result,
                   tsVars, clockVars>>

\* lines 439-444: the ping result is collected, then
\* trade_test.run(duration_sec=30, warmup_sec=3).  ping_test is not read
\* again: its accumulator, its queue, the locals of its run and the pongs
\* still under way to a closed connection are dropped from the state; its
\* thread and its connection stay as they are.  Nothing that is kept holds
\* a clock reading, so the clock restarts at 0.
FsPingReturned ==
    /\ fs_pc = "ping" /\ pc = "done" /\ Awake
    /\ results' = Collect(results, "ws_ping_pong", result, stats)
    /\ pc' = "returned"
    /\ stats' = <<>> /\ pending' = <<>>
    /\ interval' = 0 /\ ret' = "none" /\ w' = 0 /\ collected' = 0
    /\ last_print' = 0 /\ send_time' = 0 /\ snap' = None
    /\ recv_time' = 0 /\ cur_pong' = 0
    /\ net' = IF conn = "open" THEN net ELSE <<>>
    /\ matched' = <<>> /\ pings' = 0 /\ lost' = 0 /\ pongedIds' = {}
    /\ strays' = 0 /\ lateWarm' = FALSE /\ lossReport' = -1
    /\ closedDuring' = FALSE /\ discards' = -1 /\ unlocked' = {}
    /\ log' = <<>> /\ phase' = "warmup"
    /\ now' = 0 /\ wake' = 0
    /\ ts_pc' = "init"
    /\ ts_args' = FULL_TRADE_ARGS
    /\ ts_msgs' = MaxMsgs - FullMaxMsgs
    /\ fs_pc' = "trade"
    /\ UNCHANGED <<sock, running, lock, samples_arg, interval_arg, polls,
                   result, bg, conn, faults, closeCalled,
                   ts_stats, ts_running, message_count, ts_warmup, ts_polls,
                   ts_result, ts_bg, ts_msg, ts_conn, ts_hist, ts_warned,
                   ts_skewed, ts_raised, fs_samples, tcpVars>>

\* line 438: ping_test.run raised; nothing in run_full_stack catches it
FsPingRaised ==
    /\ fs_pc = "ping" /\ pc = "raised"
    /\ fs_pc' = "raised"
    /\ UNCHANGED <<fs_samples, results, pingVars, tcpVars, tsVars, clockVars>>

\* lines 445-446: the trade result is collected
FsTradeReturned ==
    /\ fs_pc = "trade" /\ ts_pc = "done"
    /\ results' = Collect(results, "trade_stream", ts_result, ts_stats)
    /\ fs_pc' = "summary"
    /\ UNCHANGED <<fs_samples, pingVars, tcpVars, tsVars, clockVars>>

\* lines 448-456: the summary is printed and results returned
FsSummary ==
    /\ fs_pc = "summary"
    /\ fs_pc' = "done"
    /\ UNCHANGED <<fs_samples, results, pingVars, tcpVars, tsVars, clockVars>>

InitFull ==
    /\ InitPing(1, MIN_INTERVAL_MS, "off")
    /\ InitTcp(0, "off") /\ InitTs(NoArgs, "off")
    /\ fs_pc = "init" /\ results = {}
    /\ fs_samples \in FsSamples

NextFull ==
    \/ FsStart \/ FsTcpReturned \/ FsPingReturned \/ FsPingRaised
    \/ FsTradeReturned \/ FsSummary
    \/ Tick
    \/ Start \/ Poll \/ PostPoll \/ Warm \/ WarmSleep
    \/ SendPingCheck \/ SendPingLock \/ SendPingFrameOk \/ SendPingFrameRaises
    \/ SendPingAppend
    \/ Reset
    \/ Loop \/ MeasSleep \/ Count \/ Progress
    \/ LossCheck \/ Close \/ Report
    \/ OnOpen \/ PongArrive \/ StrayPong \/ PongLose \/ OnPongBody
    \/ ConnDrop \/ OnCloseRunning \/ OnCloseSock
    \/ TcpResolve \/ TcpWarmup \/ TcpMeasure \/ TcpReport
    \/ TsStart \/ TsPoll \/ TsPostPoll \/ TsClearFlag \/ TsReplace
    \/ TsClose \/ TsJoin \/ TsReport
    \/ TsOnOpen \/ TsMsgBegin \/ TsMsgCheckWarmup \/ TsMsgAdd \/ TsMsgCount
    \/ TsConnDrop \/ TsOnClose

SpecFull == InitFull /\ [][NextFull]_vars

(***************************************************************************)
(* Properties                                                              *)
(***************************************************************************)
\* the samples of the accumulator and their history, side by side
Samples == 1..Len(matched)

\* C1: FIFO ping/pong matching.  While every pong of the phase has been
\* delivered in the order of the pings (none dropped by the network, none
\* unsolicited, none still outstanding when the queue was reset), the pong
\* that made the k-th sample answers the very ping whose timestamp was
\* popped for it, and the sample is its receive time minus that ping's
\* send_time -- in every interleaving of send_ping and on_pong.
C1_FifoMatching ==
    (lost = 0 /\ strays = 0 /\ ~lateWarm) =>
        /\ Len(stats) = Len(matched)
        /\ \A k \in Samples :
              /\ matched[k].pong = matched[k].ping
              /\ stats[k] = matched[k].recv - log[matched[k].pong].t
        /\ \A j, k \in Samples : j < k => matched[j].ping < matched[k].ping

\* C1 witness: two measurement pings were outstanding together, both pongs
\* came back in order, one of them after a delay
C1_Witness ==
    /\ lost = 0 /\ strays = 0 /\ ~lateWarm /\ faults = 0
    /\ phase = "measure" /\ Len(matched) = 2
    /\ matched[1].recv > log[matched[2].ping].t
    /\ stats[1] > 0

\* the measurement pings whose frame was issued
MeasuredPings == {i \in 1..Len(log) : log[i].phase = "measure"}

\* C2: warmup samples never appear in the accumulator that run returns.
\* With no fault of the transport (only the arrival time of the pongs
\* varies), every sample of the returned accumulator pairs a measurement
\* ping with the pong that answers it, and the number of samples is the
\* number of measurement pongs that on_pong received.
C2_NoWarmupSamples ==
    (pc = "done" /\ result = "stats" /\ faults = 0) =>
        /\ \A k \in Samples :
              /\ matched[k].pong \in MeasuredPings
              /\ matched[k].pong = matched[k].ping
        /\ Len(stats) = Cardinality(pongedIds)

\* C3: lost pings are excluded from the statistics and counted apart.  At
\* the loss check after the drain (no warmup pong outstanding at the reset,
\* no unsolicited pong), no sample was made from the timestamp of a ping
\* that received no pong, and the reported count is the number of
\* measurement pings that received no pong.
C3_LostPingsExcluded ==
    [][(pc = "loss" /\ pc' = "close" /\ ~lateWarm /\ strays = 0) =>
        /\ \A k \in Samples : matched[k].ping \in pongedIds
        /\ lossReport' = Cardinality(MeasuredPings \ pongedIds)]_vars

\* C4: a stray pong is discarded without effect.  A step in which on_pong
\* runs its with-block while pending_pings is empty leaves the queue and the
\* samples of the accumulator as they were; and afterwards matching goes on
\* as before: as long as no pong was dropped, none was outstanding at the
\* reset, and no unsolicited pong was matched to a ping, every pong is
\* matched to its own ping, the oldest one outstanding.
C4_StrayPongDiscarded ==
    [][/\ (bg = "pong_wait" /\ bg' = "idle" /\ pending = <<>>) =>
             (pending' = pending /\ stats' = stats)
       /\ (lost' = 0 /\ ~lateWarm' /\ \A k \in 1..Len(matched') :
                                          matched'[k].pong # 0) =>
             /\ Len(stats') = Len(matched')
             /\ \A k \in 1..Len(matched') :
                    matched'[k].pong = matched'[k].ping
             /\ (bg = "pong_wait" /\ bg' = "idle" /\ pending # <<>>) =>
                    /\ matched'[Len(matched')].ping = pending[1].id
                    /\ \A i \in 1..Len(pending) :
                           pending[1].id <= pending[i].id]_vars

\* C4 witness: in the measurement phase an unsolicited pong found the queue
\* empty and was discarded, and a pong that came later was matched
C4_Witness ==
    /\ phase = "measure" /\ strays = 1 /\ lost = 0 /\ ~lateWarm
    /\ discards >= 0 /\ Len(matched) > discards
    /\ \A k \in Samples : matched[k].pong # 0

\* C5: connection loss during measurement ends the run cleanly.  Once
\* on_close has run while run was in its measurement loop, run does not end
\* by raising: when it ends, it has returned the accumulator.
C5_ConnLossEndsCleanly ==
    closedDuring =>
        /\ pc # "raised"
        /\ pc = "done" => result = "stats"

\* C6: run closes the connection on every path by which it ends.
C6_CloseOnEveryPath ==
    pc \in {"done", "raised"} => closeCalled

\* C7: ping rate limiting.  The interval of the measurement loop is the
\* requested one raised to 200 ms; two consecutive ping frames of the
\* measurement loop are at least 200 ms apart (and at least that interval
\* apart), two consecutive warmup pings at least 250 ms.
C7_RateLimit ==
    /\ pc # "init" =>
          interval = (IF interval_arg < 200 THEN 200 ELSE interval_arg)
    /\ \A i \in 1..(Len(log) - 1) :
          /\ (log[i].phase = "measure" /\ log[i + 1].phase = "measure") =>
                /\ log[i + 1].at - log[i].at >= 200
                /\ log[i + 1].at - log[i].at >= interval_arg
          /\ (log[i].phase = "warmup" /\ log[i + 1].phase = "warmup") =>
                log[i + 1].at - log[i].at >= 250

\* C7 witness: an interval below the minimum was requested and two
\* measurement pings were issued
C7_Witness ==
    /\ interval_arg < 200
    /\ Cardinality(MeasuredPings) = 2
    /\ Len(log) = 7

\* C8: the lock is never held across a network send or a sleep.
C8_LockNotAcrossSend ==
    lock # "free" => (pc # "sp_ping" /\ Awake)

\* C9: every read and write of the accumulator and of the pending queue
\* happens with self.lock held by the context that makes it.
C9_AccessUnderLock ==
    unlocked = {}

(***************************************************************************)
(* C10: LatencyStats.compute returns the error state, a result that        *)
(* carries an error and no statistic, exactly when the accumulator holds   *)
(* fewer than 2 samples; otherwise it returns statistics over all the      *)
(* samples; in both cases the sample sequence is the same after the call   *)
(* as before it.                                                           *)
(***************************************************************************)
C10_ComputeErrorState ==
    [][StatsCompute =>
        /\ IsError(snap') <=> Len(stats) < 2
        /\ IsError(snap') => DOMAIN snap' = {"error"}
        /\ ~IsError(snap') => /\ {"count", "min", "max"} \subseteq DOMAIN snap'
                              /\ snap'.count = Len(stats)
        /\ stats' = stats]_vars

C10_Witness ==
    /\ pc = "init" /\ Len(stats) = 2
    /\ snap # None /\ ~IsError(snap) /\ snap.count = 2

(***************************************************************************)
(* C11: in the snapshot of compute for n >= 2 samples the p99.9 field is   *)
(* present if and only if n >= 1000; below 1000 samples the snapshot has   *)
(* no such field.                                                          *)
(***************************************************************************)
C11_P999PresentIffThousand ==
    [][(StatsCompute /\ Len(stats) >= 2) =>
        ("p99_9" \in DOMAIN snap' <=> Len(stats) >= 1000)]_vars

(***************************************************************************)
(* C12: for n >= 2 samples and p in {50, 90, 95, 99} the percentile of the *)
(* snapshot is the nearest-rank value sorted(samples)[min(floor(p/100*n),  *)
(* n-1)], hence one of the recorded samples.                               *)
(***************************************************************************)
NearestRank(samples, p) ==
    Sorted(samples)[Min((p * Len(samples)) \div 100, Len(samples) - 1) + 1]

C12_NearestRank ==
    [][(StatsCompute /\ Len(stats) >= 2) =>
        /\ snap'.p50 = PSCALE * NearestRank(stats, 50)
        /\ snap'.p90 = PSCALE * NearestRank(stats, 90)
        /\ snap'.p95 = PSCALE * NearestRank(stats, 95)
        /\ snap'.p99 = PSCALE * NearestRank(stats, 99)
        /\ \A f \in {"p50", "p90", "p95", "p99"} :
              \E k \in 1..Len(stats) : snap'[f] = PSCALE * stats[k]]_vars

(***************************************************************************)
(* C13: for n >= 2 samples the snapshot satisfies min <= p50 <= p90 <= p95 *)
(* <= p99 <= max, and p50 differs from the median by at most the gap       *)
(* between the two middle samples of the sorted sequence.                  *)
(***************************************************************************)
MiddleGap(samples) ==
    LET arr == Sorted(samples)
        n   == Len(arr)
    IN  arr[n \div 2 + 1] - arr[(n + 1) \div 2]

Abs(x) == IF x < 0 THEN -x ELSE x

C13_PercentileOrder ==
    [][(StatsCompute /\ Len(stats) >= 2) =>
        /\ PSCALE * snap'.min <= snap'.p50
        /\ snap'.p50 <= snap'.p90
        /\ snap'.p90 <= snap'.p95
        /\ snap'.p95 <= snap'.p99
        /\ snap'.p99 <= PSCALE * snap'.max
        /\ Abs(snap'.p50 - snap'.median) <= PSCALE * MiddleGap(stats)]_vars

C13_Witness ==
    /\ pc = "init" /\ Len(stats) = 4 /\ snap # None /\ ~IsError(snap)
    /\ snap.count = 4
    /\ stats[1] > stats[2]
    /\ snap.min < snap.max
    /\ PSCALE * snap.min < snap.p50 /\ snap.p50 < snap.p90
    /\ snap.p90 < snap.p95 /\ snap.p95 < snap.p99

(***************************************************************************)
(* C14: TCPConnectLatency.run reports statistics over exactly the          *)
(* successfully measured samples: whatever connects succeed or fail in the *)
(* 10 warmup cycles and in the N attempts of the main loop, the            *)
(* accumulator holds one sample per attempt of the main loop that          *)
(* connected, in attempt order, none for a failed attempt and none from a  *)
(* warmup cycle.                                                           *)
(***************************************************************************)
RECURSIVE Successful(_)
Successful(attempts) ==
    IF attempts = <<>> THEN <<>>
    ELSE IF attempts[1].ok
         THEN <<attempts[1].ms>> \o Successful(Tail(attempts))
         ELSE Successful(Tail(attempts))

C14_TcpExactlySuccessful ==
    /\ tcp_stats = Successful(tcp_log)
    /\ tcp_pc \in {"init", "warm"} => tcp_stats = <<>>
    /\ (tcp_pc = "done" /\ tcp_result = "stats") =>
          /\ Len(tcp_log) = tcp_samples
          /\ tcp_w = TCP_WARMUP

C14_Witness ==
    /\ tcp_pc = "done" /\ tcp_result = "stats"
    /\ tcp_warm_ok = 7
    /\ Len(tcp_log) = 3 /\ Len(tcp_stats) = 2
    /\ tcp_log[1].ok /\ ~tcp_log[2].ok /\ tcp_log[3].ok
    /\ tcp_stats = <<tcp_log[1].ms, tcp_log[3].ms>>

(***************************************************************************)
(* C15: messages received during the warmup window never appear in the     *)
(* statistics returned by TradeStreamLatency.run: every sample of the      *)
(* returned accumulator comes from a message whose on_message began after  *)
(* the warmup flag was cleared, whatever the interleaving of on_message    *)
(* with `self.warmup = False; self.stats = LatencyStats()`.                *)
(***************************************************************************)
C15_NoWarmupMessages ==
    (ts_pc = "done" /\ ts_result = "stats") =>
        /\ Len(ts_hist) = Len(ts_stats)
        /\ \A k \in 1..Len(ts_hist) : ~ts_hist[k].early

(***************************************************************************)
(* C16: in a run of TradeStreamLatency in which at least one message past  *)
(* the warmup yields a latency below -100 ms, at any position of the       *)
(* message sequence, the clock-synchronization warning is printed exactly  *)
(* once, and each such latency is appended to the accumulator unchanged.   *)
(***************************************************************************)
C16_SkewWarnedOnce ==
    /\ (ts_pc = "done" /\ ts_result = "stats" /\ ts_skewed >= 1) =>
          ts_warned = 1
    /\ \A k \in 1..Min(Len(ts_hist), Len(ts_stats)) :
          ts_stats[k] = ts_hist[k].ms

(***************************************************************************)
(* C18: the accumulator returned by WSPingPongLatency.run belongs to the   *)
(* caller: once run has returned it, no callback of the probe appends to   *)
(* it or changes it.                                                       *)
(***************************************************************************)
C18_ReturnedAccumulatorOwned ==
    [][(pc = "done" /\ result = "stats") => stats' = stats]_vars

(***************************************************************************)
(* C19: failures that are fatal to a probe abort it with no result.  If    *)
(* the host name does not resolve, TCPConnectLatency.run returns None and  *)
(* has made no connect.  If self.running is still false when the 50 polls  *)
(* of 100 ms are over, WSPingPongLatency.run and TradeStreamLatency.run    *)
(* return None at once: no ping was sent, no sample recorded, and the      *)
(* connection is not tried again.                                          *)
(***************************************************************************)
C19_FatalAbortsNoResult ==
    [][/\ (tcp_pc' = "done" /\ tcp_result' = "None") =>
             (tcp_connects' = 0 /\ tcp_stats' = <<>> /\ tcp_w' = 0)
       /\ (pc = "postpoll" /\ ~running /\ pc' # pc) =>
             (pc' = "done" /\ result' = "None")
       /\ (pc' = "done" /\ result' = "None") =>
             /\ log' = <<>> /\ stats' = <<>> /\ pending' = <<>>
             /\ polls' <= CONNECT_POLLS
       /\ (pc = "done" /\ result = "None") =>
             (pc' = pc /\ result' = result /\ polls' = polls)
       /\ (ts_pc = "postpoll" /\ ~ts_running /\ ts_pc' # ts_pc) =>
             (ts_pc' = "done" /\ ts_result' = "None")
       /\ (ts_pc' = "done" /\ ts_result' = "None") =>
             /\ ts_stats' = <<>> /\ message_count' = 0
             /\ ts_polls' <= CONNECT_POLLS
       /\ (ts_pc = "done" /\ ts_result = "None") =>
             (ts_pc' = ts_pc /\ ts_result' = ts_result /\ ts_polls' = ts_polls)
      ]_vars

C19_Witness ==
    /\ pc = "done" /\ result = "None"
    /\ polls = CONNECT_POLLS /\ bg = "connecting" /\ ~running
    /\ log = <<>> /\ now = CONNECT_POLLS * POLL_SLEEP_MS

(***************************************************************************)
(* C17: a probe that fails never makes run_full_stack raise: whatever the  *)
(* outcome of each probe (resolution failure, connection timeout, a ping   *)
(* send that fails, fewer than 2 samples), run_full_stack reaches its end, *)
(* and results holds an entry for a probe only if that probe produced      *)
(* statistics: never an error record.                                      *)
(***************************************************************************)
C17_ProbeFailuresOmitted ==
    /\ fs_pc # "raised"
    /\ \A entry \in results : ~IsError(entry.stats)

(***************************************************************************)
(* C20: run_full_stack runs the three probes strictly one after the other: *)
(* the run of the ping probe is in progress only after the run of the TCP  *)
(* probe has returned, the run of the stream probe only after the run of   *)
(* the ping probe has returned, and no callback of the ping probe's        *)
(* connection runs while the stream probe is collecting.                   *)
(***************************************************************************)
C20_ProbesInSequence ==
    [][/\ pc' \notin {"off", "returned"} => tcp_pc' = "returned"
       /\ ts_pc' # "off" => (pc' = "returned" /\ tcp_pc' = "returned")
       /\ ts_pc = "collect" => UNCHANGED <<bg, sock, running, conn>>
      ]_vars

\* ping i's timestamp has been appended to pending_pings by send_ping
\* (line 132): its frame is in the log and send_ping is past the append
Appended(i) == i \in 1..Len(log) /\ ~(i = Len(log) /\ pc = "sp_append")

\* C21: send_ping is atomic with respect to on_pong.  Whenever on_pong runs
\* its matching step (the with-block of lines 110-115) for the pong that
\* answers ping i, send_ping has already appended the timestamp of ping i to
\* the pending queue: the step never falls between the frame and the append.
C21_PongFindsItsPing ==
    [][(bg = "pong_wait" /\ bg' = "idle" /\ cur_pong # 0) => Appended(cur_pong)]_vars

\* the pong of the ping whose frame has just been issued is already being
\* handled (on_pong has taken its receive time) while send_ping, still
\* inside its with-block, has not appended yet: the callback waits
C21_Witness ==
    /\ bg = "pong_wait" /\ cur_pong = Len(log) /\ cur_pong # 0
    /\ pc = "sp_append" /\ lock = "fg"
    /\ phase = "measure"

\* WSPingPongLatency.run has ended: it returned (line 219), or an exception
\* of send_ping left it
RunEnded == pc \in {"done", "raised"}

\* C22: WSPingPongLatency.run always terminates.  On every execution in
\* which both threads keep being scheduled, whatever the network does (the
\* connection may stay open while no pong arrives), the measurement loop
\* exits, the drain period elapses and run comes to its end.
C22_RunTerminates == <>RunEnded

\* C23: a single send failure in the measurement loop is a sample-skip.
\* When self.sock.ping() fails for a ping of the measurement loop, no entry
\* is appended to the pending queue, no sample is recorded, and run goes on
\* with the sleep of line 199 and the next turn of the loop.
C23_SendFailureSkips ==
    [][(pc = "sp_ping" /\ ret = "meas_sleep" /\ pc' \notin {"sp_ping", "sp_append"})
         => (pc' = "meas_sleep" /\ pending' = pending /\ stats' = stats)]_vars

\* C24: malformed stream messages are dropped without effect.  on_message
\* returns normally from every message that is not a well-formed event
\* object (no exception has left it), and no sample of the accumulator
\* comes from such a message (so message_count was not advanced for one).
C24_MalformedDropped ==
    /\ ts_raised = 0
    /\ \A k \in 1..Len(ts_hist) : ts_hist[k].kind = "event"

\* C25: every latency sample recorded by the ping/pong probe is
\* non-negative: the receive time used for a sample is never earlier than
\* the send timestamp it is matched to.  Stated of the accumulator of the
\* measurement phase, the one run returns.
C25_SamplesNonNegative ==
    phase = "measure" => \A k \in 1..Len(stats) : stats[k] >= 0

C27_AtMostRequested ==
    [][(pc = "report" /\ pc' = "done") => Len(stats') <= samples_arg]_vars

\* C28: in TradeStreamLatency, once the warmup boundary has been passed
\* (run is past line 330) and on_message is not between its add (line 263)
\* and its count (line 264), message_count equals the number of samples in
\* the current accumulator.
C28_CountMatchesSamples ==
    (ts_pc \in {"collect", "join", "report", "done"} /\ ts_bg # "added")
        => message_count = Len(ts_stats)

============================================================================
